---- MODULE Spec2Model ----
(***************************************************************************)
(* Model of library_manager.py: the LibraryManager ledger (books, users,   *)
(* loans) and the Book, User and Loan records it owns.                     *)
(*                                                                         *)
(* A dict is modelled with its insertion order where the code observes it  *)
(* (books: a sequence of Book records, one per ISBN) and as a function     *)
(* over its keys where it does not (users).  A raised ValueError is the    *)
(* result of the call, named after the condition that raised it.           *)
(***************************************************************************)
EXTENDS Integers, Sequences, FiniteSets, TLC

VARIABLES books, users, loans, now, last

vars == <<books, users, loans, now, last>>

(***************************************************************************)
(* Bounds of the model.                                                    *)
(***************************************************************************)
Range(s) == {s[k] : k \in 1..Len(s)}

\* the log of loans stops growing at this length
MaxLoans == 3
\* add_book stops restocking a title at this many copies
MaxTotal == 2
\* the clock stops at this reading
MaxNow == 3
\* SpecClock: the log of loans stops growing at this length
MaxClockLoans == 2
\* clock readings per day
TicksPerDay == 2
\* SpecAnyCopies: add_book stops taking copies off a title at this many
\* copies below none
MaxDebt == 1
\* SpecLimit: returns stop after this many closed loans
MaxReturned == 1
\* SpecLimit: the log holds this many loans beyond the limit of active loans
MaxLimitLoans == 2

\* the inputs of Spec
UserIds == {"u1", "u2"}
Emails == {"a@x", "b@x"}
Names == {"Ana"}
Isbns == {"i1", "i2"}
Titles == {"T1"}
Authors == {"A1"}
Years == {1997}
Copies == 1..2
LoanDays == {14}

\* the inputs of SpecCatalog: titles, authors and queries are strings of the
\* letters A, a, B, b
CatIsbns == {"i1", "i2"}
CatTitles == {<<"A", "b">>, <<"b", "a">>}
CatAuthors == {<<"B">>, <<"a", "a">>}
CatYears == {1949, 1997}
Letters == {"A", "a", "b"}
Queries ==
    {<<>>} \cup {<<x>> : x \in Letters} \cup {<<x, y>> : x, y \in Letters}

\* the inputs of SpecClock: titles of one copy, loans due at once or after a
\* day
ClockCopies == {1}
ClockLoanDays == {0, 1}

\* the inputs of SpecAnyCopies: add_book takes any integer as copies
AnyCopies == -1 .. 2

\* the inputs of SpecLimit: the member u1 and six titles to borrow, a seventh
\* title whose only copy the member u2 holds, and an unknown member and title
LimitIsbns == <<"i1", "i2", "i3", "i4", "i5", "i6", "i7">>
LimitBorrows ==
    ({"u1"} \X (Range(LimitIsbns) \cup {"i0"})) \cup {<<"u0", "i1">>, <<"u0", "i0">>, <<"u0", "i7">>}
LimitReturns == {"u1"} \X (Range(LimitIsbns) \ {"i7"})

(***************************************************************************)
(* Values of the program.                                                  *)
(***************************************************************************)
\* Loan.return_date before the return
None == -1

\* borrow_book: "máximo 5"
MaxActiveLoans == 5

\* Book.__init__
Book(isbn, title, author, year, copies) ==
    [isbn |-> isbn, title |-> title, author |-> author, year |-> year,
     total_copies |-> copies, available_copies |-> copies]

\* User.__init__
User(user_id, name, email, t) ==
    [user_id |-> user_id, name |-> name, email |-> email,
     borrowed_books |-> <<>>, registration_date |-> t]

\* Loan.__init__
Loan(user_id, isbn, loan_days, t) ==
    [user_id |-> user_id, isbn |-> isbn, loan_date |-> t,
     due_date |-> t + loan_days * TicksPerDay,
     return_date |-> None, is_active |-> TRUE]

\* Loan.return_book
LoanReturn(l, t) == [l EXCEPT !.return_date = t, !.is_active = FALSE]

\* isbn in self.books
HasBook(bks, isbn) == \E k \in 1..Len(bks) : bks[k].isbn = isbn

\* the position of self.books[isbn] in the dict
BookIndex(bks, isbn) == CHOOSE k \in 1..Len(bks) : bks[k].isbn = isbn

\* self.books[isbn]
BookOf(bks, isbn) == bks[BookIndex(bks, isbn)]

\* user_id in self.users
HasUser(usrs, user_id) == user_id \in DOMAIN usrs

\* list.pop(0) in place of list.remove(x): drops the head of the list
RemoveHead(s, x) == Tail(s)

\* list.remove(x): drops the first occurrence of x
RemoveFirst(s, x) ==
    LET k == CHOOSE j \in 1..Len(s) : s[j] = x /\ \A h \in 1..(j - 1) : s[h] # x
    IN  SubSeq(s, 1, k - 1) \o SubSeq(s, k + 1, Len(s))

\* the positions of the active loans of a user, in log order
ActiveIdx(lns, user_id) ==
    {k \in 1..Len(lns) : lns[k].user_id = user_id /\ lns[k].is_active}

\* the loans of a user on a title, the closed ones too
MatchIdxAny(lns, user_id, isbn) ==
    {k \in 1..Len(lns) : lns[k].user_id = user_id /\ lns[k].isbn = isbn}

\* the positions of the active loans of a user on a title
MatchIdx(lns, user_id, isbn) ==
    {k \in ActiveIdx(lns, user_id) : lns[k].isbn = isbn}

\* a dict with no keys
EmptyDict == [k \in {} |-> k]

\* the outcome of a call
Call(op, user_id, isbn, result, value) ==
    [op |-> op, user_id |-> user_id, isbn |-> isbn, result |-> result,
     value |-> value]

(***************************************************************************)
(* LibraryManager.__init__                                                 *)
(***************************************************************************)
Init ==
    /\ books = <<>>
    /\ users = EmptyDict
    /\ loans = <<>>
    /\ now = 0
    /\ last = Call("init", "-", "-", "ok", "-")

(***************************************************************************)
(* add_book                                                                *)
(***************************************************************************)
\* add_book with "=" in place of "+=" for an existing title
AddBookBooksReplace(bks, isbn, title, author, year, copies) ==
    IF HasBook(bks, isbn)
    THEN [bks EXCEPT ![BookIndex(bks, isbn)] =
            [@ EXCEPT !.total_copies = copies, !.available_copies = copies]]
    ELSE Append(bks, Book(isbn, title, author, year, copies))

AddBookBooks(bks, isbn, title, author, year, copies) ==
    IF HasBook(bks, isbn)
    THEN [bks EXCEPT ![BookIndex(bks, isbn)] =
            [@ EXCEPT !.total_copies = @ + copies,
                      !.available_copies = @ + copies]]
    ELSE Append(bks, Book(isbn, title, author, year, copies))

add_book(isbn, title, author, year, copies) ==
    /\ HasBook(books, isbn) => BookOf(books, isbn).total_copies + copies <= MaxTotal
    /\ books' = AddBookBooks(books, isbn, title, author, year, copies)
    /\ last' = Call("add_book", "-", isbn, "ok",
                    [message |-> IF HasBook(books, isbn) THEN "CopiesAdded"
                                 ELSE "BookAdded",
                     title |-> title, author |-> author, year |-> year,
                     copies |-> copies])
    /\ UNCHANGED <<users, loans, now>>

(***************************************************************************)
(* register_user                                                           *)
(***************************************************************************)
\* register_user without the scan of the emails in use
RegisterCheckNoScan(usrs, user_id, email) ==
    IF HasUser(usrs, user_id) THEN "DuplicateMember" ELSE "ok"

RegisterCheck(usrs, user_id, email) ==
    IF HasUser(usrs, user_id) THEN "DuplicateMember"
    ELSE IF \E u \in DOMAIN usrs : usrs[u].email = email THEN "DuplicateEmail"
    ELSE "ok"

\* self.users[user_id] = User(user_id, name, email)
RegisterUsers(usrs, user_id, name, email, t) ==
    usrs @@ (user_id :> User(user_id, name, email, t))

register_user(user_id, name, email) ==
    LET r == RegisterCheck(users, user_id, email) IN
    /\ users' = IF r = "ok"
                THEN RegisterUsers(users, user_id, name, email, now)
                ELSE users
    /\ last' = Call("register_user", user_id, "-", r, email)
    /\ UNCHANGED <<books, loans, now>>

(***************************************************************************)
(* Loan.is_overdue, Loan.days_overdue                                      *)
(***************************************************************************)
\* is_overdue with >= in place of >
is_overdue_inclusive(l, t) == l.is_active /\ t >= l.due_date

is_overdue(l, t) == l.is_active /\ t > l.due_date

\* days_overdue rounding a started day up
days_overdue_up(l, t) ==
    IF ~is_overdue(l, t) THEN 0
    ELSE (t - l.due_date + TicksPerDay - 1) \div TicksPerDay

\* timedelta.days: whole days, rounded down
days_overdue(l, t) ==
    IF ~is_overdue(l, t) THEN 0 ELSE (t - l.due_date) \div TicksPerDay

(***************************************************************************)
(* borrow_book                                                             *)
(***************************************************************************)
\* borrow_book without the check of available_copies
BorrowCheckNoStock(bks, usrs, lns, user_id, isbn) ==
    IF ~HasUser(usrs, user_id) THEN "MemberNotFound"
    ELSE IF ~HasBook(bks, isbn) THEN "TitleNotFound"
    ELSE IF \E k \in 1..Len(lns) :
               lns[k].user_id = user_id /\ lns[k].isbn = isbn /\ lns[k].is_active
         THEN "DuplicateActiveLoan"
    ELSE IF Cardinality(ActiveIdx(lns, user_id)) >= MaxActiveLoans
         THEN "LoanLimitExceeded"
    ELSE "ok"

\* borrow_book with available_copies < 0 in place of <= 0
BorrowCheckStockOff(bks, usrs, lns, user_id, isbn) ==
    IF ~HasUser(usrs, user_id) THEN "MemberNotFound"
    ELSE IF ~HasBook(bks, isbn) THEN "TitleNotFound"
    ELSE IF BookOf(bks, isbn).available_copies < 0 THEN "NoCopiesAvailable"
    ELSE IF \E k \in 1..Len(lns) :
               lns[k].user_id = user_id /\ lns[k].isbn = isbn /\ lns[k].is_active
         THEN "DuplicateActiveLoan"
    ELSE IF Cardinality(ActiveIdx(lns, user_id)) >= MaxActiveLoans
         THEN "LoanLimitExceeded"
    ELSE "ok"

\* borrow_book without the scan for an active loan on the title
BorrowCheckNoDuplicate(bks, usrs, lns, user_id, isbn) ==
    IF ~HasUser(usrs, user_id) THEN "MemberNotFound"
    ELSE IF ~HasBook(bks, isbn) THEN "TitleNotFound"
    ELSE IF BookOf(bks, isbn).available_copies <= 0 THEN "NoCopiesAvailable"
    ELSE IF Cardinality(ActiveIdx(lns, user_id)) >= MaxActiveLoans
         THEN "LoanLimitExceeded"
    ELSE "ok"

\* borrow_book with len(active_loans) > 5 in place of >= 5
BorrowCheckLimitOff(bks, usrs, lns, user_id, isbn) ==
    IF ~HasUser(usrs, user_id) THEN "MemberNotFound"
    ELSE IF ~HasBook(bks, isbn) THEN "TitleNotFound"
    ELSE IF BookOf(bks, isbn).available_copies <= 0 THEN "NoCopiesAvailable"
    ELSE IF \E k \in 1..Len(lns) :
               lns[k].user_id = user_id /\ lns[k].isbn = isbn /\ lns[k].is_active
         THEN "DuplicateActiveLoan"
    ELSE IF Cardinality(ActiveIdx(lns, user_id)) > MaxActiveLoans
         THEN "LoanLimitExceeded"
    ELSE "ok"

\* borrow_book with the limit checked before the scan for an active loan
BorrowCheckReordered(bks, usrs, lns, user_id, isbn) ==
    IF ~HasUser(usrs, user_id) THEN "MemberNotFound"
    ELSE IF ~HasBook(bks, isbn) THEN "TitleNotFound"
    ELSE IF BookOf(bks, isbn).available_copies <= 0 THEN "NoCopiesAvailable"
    ELSE IF Cardinality(ActiveIdx(lns, user_id)) >= MaxActiveLoans
         THEN "LoanLimitExceeded"
    ELSE IF \E k \in 1..Len(lns) :
               lns[k].user_id = user_id /\ lns[k].isbn = isbn /\ lns[k].is_active
         THEN "DuplicateActiveLoan"
    ELSE "ok"

\* the checks of borrow_book, in the order of the code
BorrowCheck(bks, usrs, lns, user_id, isbn) ==
    IF ~HasUser(usrs, user_id) THEN "MemberNotFound"
    ELSE IF ~HasBook(bks, isbn) THEN "TitleNotFound"
    ELSE IF BookOf(bks, isbn).available_copies <= 0 THEN "NoCopiesAvailable"
    ELSE IF \E k \in 1..Len(lns) :
               lns[k].user_id = user_id /\ lns[k].isbn = isbn /\ lns[k].is_active
         THEN "DuplicateActiveLoan"
    ELSE IF Cardinality(ActiveIdx(lns, user_id)) >= MaxActiveLoans
         THEN "LoanLimitExceeded"
    ELSE "ok"

\* self.loans.append(loan)
BorrowLoans(lns, user_id, isbn, loan_days, t) ==
    Append(lns, Loan(user_id, isbn, loan_days, t))

\* book.available_copies -= 1
BorrowBooks(bks, isbn) ==
    [bks EXCEPT ![BookIndex(bks, isbn)].available_copies = @ - 1]

\* user.borrowed_books.insert(0, isbn) in place of append
BorrowUsersPrepend(usrs, user_id, isbn) ==
    [usrs EXCEPT ![user_id].borrowed_books = <<isbn>> \o @]

\* user.borrowed_books.append(isbn)
BorrowUsers(usrs, user_id, isbn) ==
    [usrs EXCEPT ![user_id].borrowed_books = Append(@, isbn)]

\* borrow_book taking the copy before the scan for an active loan
borrow_book_eager(user_id, isbn, loan_days) ==
    LET r == BorrowCheck(books, users, loans, user_id, isbn) IN
    /\ IF r = "ok"
       THEN /\ loans' = BorrowLoans(loans, user_id, isbn, loan_days, now)
            /\ books' = BorrowBooks(books, isbn)
            /\ users' = BorrowUsers(users, user_id, isbn)
       ELSE IF r \in {"DuplicateActiveLoan", "LoanLimitExceeded"}
       THEN /\ books' = BorrowBooks(books, isbn)
            /\ UNCHANGED <<users, loans>>
       ELSE UNCHANGED <<books, users, loans>>
    /\ last' = Call("borrow_book", user_id, isbn, r, loan_days)
    /\ UNCHANGED now

borrow_book(user_id, isbn, loan_days) ==
    LET r == BorrowCheck(books, users, loans, user_id, isbn) IN
    /\ IF r = "ok"
       THEN /\ loans' = BorrowLoans(loans, user_id, isbn, loan_days, now)
            /\ books' = BorrowBooks(books, isbn)
            /\ users' = BorrowUsers(users, user_id, isbn)
       ELSE UNCHANGED <<books, users, loans>>
    /\ last' = Call("borrow_book", user_id, isbn, r, loan_days)
    /\ UNCHANGED now

(***************************************************************************)
(* return_book                                                             *)
(***************************************************************************)
\* the search of return_book without "and l.is_active"
FindLoanAny(lns, user_id, isbn) ==
    CHOOSE k \in MatchIdxAny(lns, user_id, isbn) :
        \A j \in MatchIdxAny(lns, user_id, isbn) : k <= j

\* the loan return_book finds: the first active one of the user on the title
FindLoan(lns, user_id, isbn) ==
    CHOOSE k \in MatchIdx(lns, user_id, isbn) :
        \A j \in MatchIdx(lns, user_id, isbn) : k <= j

\* the checks of return_book, in the order of the code; list.remove raises
\* ValueError when the title is not in the user's list
ReturnCheck(bks, usrs, lns, user_id, isbn) ==
    IF ~HasUser(usrs, user_id) THEN "MemberNotFound"
    ELSE IF ~HasBook(bks, isbn) THEN "TitleNotFound"
    ELSE IF MatchIdx(lns, user_id, isbn) = {} THEN "ActiveLoanNotFound"
    ELSE IF isbn \notin Range(usrs[user_id].borrowed_books) THEN "ValueError"
    ELSE "ok"

\* return_book closing every loan of the user on the title
ReturnLoansAll(lns, user_id, isbn, t) ==
    [k \in 1..Len(lns) |->
        IF lns[k].user_id = user_id /\ lns[k].isbn = isbn
        THEN LoanReturn(lns[k], t) ELSE lns[k]]

\* loan.return_book()
ReturnLoans(lns, user_id, isbn, t) ==
    [lns EXCEPT ![FindLoan(lns, user_id, isbn)] = LoanReturn(@, t)]

\* return_book without "available_copies += 1"
ReturnBooksKeep(bks, isbn) == bks

\* self.books[isbn].available_copies += 1
ReturnBooks(bks, isbn) ==
    [bks EXCEPT ![BookIndex(bks, isbn)].available_copies = @ + 1]

\* return_book without "borrowed_books.remove(isbn)"
ReturnUsersKeep(usrs, user_id, isbn) == usrs

\* self.users[user_id].borrowed_books.remove(isbn)
ReturnUsers(usrs, user_id, isbn) ==
    [usrs EXCEPT ![user_id].borrowed_books = RemoveFirst(@, isbn)]

return_book(user_id, isbn) ==
    LET r == ReturnCheck(books, users, loans, user_id, isbn) IN
    /\ IF r \in {"ok", "ValueError"}
       THEN /\ loans' = ReturnLoans(loans, user_id, isbn, now)
            /\ books' = ReturnBooks(books, isbn)
            /\ users' = IF r = "ok" THEN ReturnUsers(users, user_id, isbn)
                        ELSE users
            /\ last' = Call("return_book", user_id, isbn, r,
                            days_overdue(loans'[FindLoan(loans, user_id, isbn)], now))
       ELSE /\ UNCHANGED <<books, users, loans>>
            /\ last' = Call("return_book", user_id, isbn, r, 0)
    /\ UNCHANGED now

(***************************************************************************)
(* get_user_loans                                                          *)
(***************************************************************************)
\* the subsequence of s at the positions in idx
RECURSIVE Select(_, _)
Select(s, idx) ==
    IF s = <<>> THEN <<>>
    ELSE Select(SubSeq(s, 1, Len(s) - 1), idx) \o
         (IF Len(s) \in idx THEN <<s[Len(s)]>> ELSE <<>>)

UserLoans(lns, user_id) == Select(lns, ActiveIdx(lns, user_id))

get_user_loans(user_id) ==
    /\ last' = IF HasUser(users, user_id)
               THEN Call("get_user_loans", user_id, "-", "ok",
                         UserLoans(loans, user_id))
               ELSE Call("get_user_loans", user_id, "-", "MemberNotFound", <<>>)
    /\ UNCHANGED <<books, users, loans, now>>

(***************************************************************************)
(* search_books                                                            *)
(***************************************************************************)
\* str.lower() of one letter
LowerChar(c) == CASE c = "A" -> "a" [] c = "B" -> "b" [] OTHER -> c

\* str.lower() that leaves the string as it is
LowerNone(s) == s

\* str.lower()
Lower(s) == [k \in 1..Len(s) |-> LowerChar(s[k])]

\* sub in s
Contains(sub, s) ==
    \E off \in 0..(Len(s) - Len(sub)) : SubSeq(s, off + 1, off + Len(sub)) = sub

\* the books search_books appends to results, in the order of self.books
SearchBooks(bks, query) ==
    Select(bks, {k \in 1..Len(bks) :
                    \/ Contains(Lower(query), Lower(bks[k].title))
                    \/ Contains(Lower(query), Lower(bks[k].author))})

search_books(query) ==
    /\ last' = Call("search_books", "-", "-", "ok",
                    [query |-> query, results |-> SearchBooks(books, query)])
    /\ UNCHANGED <<books, users, loans, now>>

(***************************************************************************)
(* get_overdue_loans, get_library_stats, and Loan.days_overdue called on a *)
(* loan of the log                                                         *)
(***************************************************************************)
OverdueLoans(lns, t) == Select(lns, {k \in 1..Len(lns) : is_overdue(lns[k], t)})

get_overdue_loans ==
    /\ last' = Call("get_overdue_loans", "-", "-", "ok", OverdueLoans(loans, now))
    /\ UNCHANGED <<books, users, loans, now>>

\* sum(book.total_copies for book in self.books.values())
RECURSIVE SumTotal(_)
SumTotal(bks) ==
    IF bks = <<>> THEN 0 ELSE bks[1].total_copies + SumTotal(Tail(bks))

\* available_books summed over total_copies
SumAvailableAll(bks) == SumTotal(bks)

\* sum(book.available_copies for book in self.books.values())
RECURSIVE SumAvailable(_)
SumAvailable(bks) ==
    IF bks = <<>> THEN 0 ELSE bks[1].available_copies + SumAvailable(Tail(bks))

LibraryStats(bks, usrs, lns, t) ==
    [total_titles |-> Len(bks),
     total_books |-> SumTotal(bks),
     available_books |-> SumAvailable(bks),
     registered_users |-> Cardinality(DOMAIN usrs),
     active_loans |-> Len(Select(lns, {k \in 1..Len(lns) : lns[k].is_active})),
     overdue_loans |-> Len(OverdueLoans(lns, t))]

get_library_stats ==
    /\ last' = Call("get_library_stats", "-", "-", "ok",
                    LibraryStats(books, users, loans, now))
    /\ UNCHANGED <<books, users, loans, now>>

loan_days_overdue(k) ==
    /\ k \in 1..Len(loans)
    /\ last' = Call("days_overdue", loans[k].user_id, loans[k].isbn, "ok",
                    [loan |-> k, days |-> days_overdue(loans[k], now)])
    /\ UNCHANGED <<books, users, loans, now>>

(***************************************************************************)
(* datetime.now() advances between calls.  No check of add_book,           *)
(* register_user, borrow_book, return_book or get_user_loans reads the     *)
(* clock, so Spec and SpecLimit hold it at one reading.                    *)
(***************************************************************************)
Tick ==
    /\ now < MaxNow
    /\ now' = now + 1
    /\ last' = Call("tick", "-", "-", "ok", "-")
    /\ UNCHANGED <<books, users, loans>>

\* the bound on the log: a borrow that would succeed needs room in the log
CanGrow(user_id, isbn, n) ==
    BorrowCheck(books, users, loans, user_id, isbn) = "ok" => Len(loans) < n

\* the bound on returns: a return that would succeed needs fewer than n
\* closed loans in the log
CanClose(user_id, isbn, n) ==
    ReturnCheck(books, users, loans, user_id, isbn) = "ok"
        => Cardinality({k \in 1..Len(loans) : ~loans[k].is_active}) < n

(***************************************************************************)
(* The ledger driven by any caller.                                        *)
(***************************************************************************)
Next ==
    \/ \E isbn \in Isbns, title \in Titles, author \in Authors, year \in Years,
          copies \in Copies : add_book(isbn, title, author, year, copies)
    \/ \E user_id \in UserIds, name \in Names, email \in Emails :
          register_user(user_id, name, email)
    \/ \E user_id \in UserIds, isbn \in Isbns, loan_days \in LoanDays :
          /\ CanGrow(user_id, isbn, MaxLoans)
          /\ borrow_book(user_id, isbn, loan_days)
    \/ \E user_id \in UserIds, isbn \in Isbns : return_book(user_id, isbn)
    \/ \E user_id \in UserIds : get_user_loans(user_id)

Spec == Init /\ [][Next]_vars

(***************************************************************************)
(* The catalog alone: titles are added, restocked and searched, and no     *)
(* copy is lent.                                                           *)
(***************************************************************************)
NextCatalog ==
    \/ \E isbn \in CatIsbns, title \in CatTitles, author \in CatAuthors,
          year \in CatYears, copies \in Copies :
          add_book(isbn, title, author, year, copies)
    \/ \E query \in Queries : search_books(query)

SpecCatalog == Init /\ [][NextCatalog]_vars

(***************************************************************************)
(* The ledger under a running clock, with its queries.  The start is the   *)
(* ledger after                                                            *)
(*   add_book(i1, copies=1); register_user(u1)                             *)
(* and from there the second title and the second member may join.         *)
(***************************************************************************)
InitClock ==
    /\ books = AddBookBooks(<<>>, "i1", "T1", "A1", 1997, 1)
    /\ users = RegisterUsers(EmptyDict, "u1", "Ana", "a@x", 0)
    /\ loans = <<>>
    /\ now = 0
    /\ last = Call("register_user", "u1", "-", "ok", "a@x")

NextClock ==
    \/ \E copies \in ClockCopies : add_book("i2", "T1", "A1", 1997, copies)
    \/ register_user("u2", "Ana", "b@x")
    \/ \E user_id \in UserIds, isbn \in Isbns, loan_days \in ClockLoanDays :
          /\ CanGrow(user_id, isbn, MaxClockLoans)
          /\ borrow_book(user_id, isbn, loan_days)
    \/ \E user_id \in UserIds, isbn \in Isbns : return_book(user_id, isbn)
    \/ get_overdue_loans
    \/ get_library_stats
    \/ \E k \in 1..MaxClockLoans : loan_days_overdue(k)
    \/ Tick

SpecClock == InitClock /\ [][NextClock]_vars

(***************************************************************************)
(* The ledger with add_book called with any count of copies: the code      *)
(* reads copies as it is given, zero and negative counts included.         *)
(***************************************************************************)
\* the bound on restocks with a negative count: the title keeps at least
\* -n copies
CanShrink(isbn, copies, n) ==
    HasBook(books, isbn) => BookOf(books, isbn).total_copies + copies >= 0 - n

NextAnyCopies ==
    \/ \E isbn \in Isbns, title \in Titles, author \in Authors, year \in Years,
          copies \in AnyCopies :
          /\ CanShrink(isbn, copies, MaxDebt)
          /\ add_book(isbn, title, author, year, copies)
    \/ \E user_id \in UserIds, name \in Names, email \in Emails :
          register_user(user_id, name, email)
    \/ \E user_id \in UserIds, isbn \in Isbns, loan_days \in LoanDays :
          /\ CanGrow(user_id, isbn, MaxLoans)
          /\ borrow_book(user_id, isbn, loan_days)
    \/ \E user_id \in UserIds, isbn \in Isbns : return_book(user_id, isbn)

SpecAnyCopies == Init /\ [][NextAnyCopies]_vars

(***************************************************************************)
(* The ledger at the loan limit.  The start is the ledger after            *)
(*   add_book(i1, copies=2); add_book(i2..i7, copies=1);                    *)
(*   register_user(u1); register_user(u2); borrow_book(u2, i7)             *)
(* and from there the member u1 borrows and returns.                       *)
(***************************************************************************)
RECURSIVE Stock(_)
Stock(n) ==
    IF n = 0 THEN <<>>
    ELSE AddBookBooks(Stock(n - 1), LimitIsbns[n], "T1", "A1", 1997,
                      IF n = 1 THEN 2 ELSE 1)

InitLimit ==
    /\ books = BorrowBooks(Stock(Len(LimitIsbns)), "i7")
    /\ users = BorrowUsers(
                 RegisterUsers(RegisterUsers(EmptyDict, "u1", "Ana", "a@x", 0),
                               "u2", "Bia", "b@x", 0),
                 "u2", "i7")
    /\ loans = BorrowLoans(<<>>, "u2", "i7", 14, 0)
    /\ now = 0
    /\ last = Call("borrow_book", "u2", "i7", "ok", 14)

NextLimit ==
    \/ \E c \in LimitBorrows :
          /\ CanGrow(c[1], c[2], MaxActiveLoans + MaxLimitLoans)
          /\ borrow_book(c[1], c[2], 14)
    \/ \E c \in LimitReturns :
          /\ CanClose(c[1], c[2], MaxReturned)
          /\ return_book(c[1], c[2])

SpecLimit == InitLimit /\ [][NextLimit]_vars

(***************************************************************************)
(* Properties of the ledger.                                               *)
(***************************************************************************)
\* the closed loans of the log
ClosedIdx == {k \in 1..Len(loans) : ~loans[k].is_active}

\* the step is a call of op
Calls(op) == last'.op = op

\* the step is a call of op that returns normally
Succeeds(op) == last'.op = op /\ last'.result = "ok"

\* s without its element at position p
Without(s, p) == SubSeq(s, 1, p - 1) \o SubSeq(s, p + 1, Len(s))

\* C1: with every add_book passing copies >= 1, every catalog entry has
\* 0 <= available_copies <= total_copies in every reachable state.
C1_CopiesWithinTotal ==
    \A k \in 1..Len(books) :
        /\ 0 <= books[k].available_copies
        /\ books[k].available_copies <= books[k].total_copies

\* one title lent out to its last copy, another back at its total after a return
C1_Witness ==
    \E j, k \in 1..Len(books) :
        /\ books[j].available_copies = 0 /\ books[j].total_copies >= 2
        /\ books[k].available_copies = books[k].total_copies
        /\ \E n \in ClosedIdx : loans[n].isbn = books[k].isbn

\* C2: the log never holds two active loans of the same member on the same
\* ISBN, and a borrow_book by a member with an active loan on the ISBN never
\* succeeds.
C2_NoSecondActiveLoan ==
    /\ [](\A j, k \in 1..Len(loans) :
            (/\ loans[j].is_active /\ loans[k].is_active
             /\ loans[j].user_id = loans[k].user_id
             /\ loans[j].isbn = loans[k].isbn) => j = k)
    /\ [][(/\ Calls("borrow_book")
           /\ \E k \in 1..Len(loans) :
                 /\ loans[k].is_active
                 /\ loans[k].user_id = last'.user_id
                 /\ loans[k].isbn = last'.isbn)
          => (last'.result # "ok" /\ loans' = loans)]_vars

\* a second borrow of a title that still has a copy, refused
C2_Witness ==
    /\ last.op = "borrow_book" /\ last.result = "DuplicateActiveLoan"
    /\ BookOf(books, last.isbn).available_copies > 0

\* C3: no member ever has more than 5 active loans; a borrow_book by a member
\* with 5 active loans on a title that is available and not held by the member
\* fails with LoanLimitExceeded, and with fewer than 5 (as after a return) it
\* succeeds.
C3_AtMostFiveActiveLoans ==
    /\ [](\A u \in DOMAIN users :
            Cardinality({k \in 1..Len(loans) :
                            loans[k].user_id = u /\ loans[k].is_active}) <= 5)
    /\ [][(/\ Calls("borrow_book")
           /\ last'.user_id \in DOMAIN users
           /\ \E k \in 1..Len(books) :
                 books[k].isbn = last'.isbn /\ books[k].available_copies > 0
           /\ ~\E k \in 1..Len(loans) :
                 /\ loans[k].is_active
                 /\ loans[k].user_id = last'.user_id
                 /\ loans[k].isbn = last'.isbn)
          => LET n == Cardinality({k \in 1..Len(loans) :
                         loans[k].user_id = last'.user_id /\ loans[k].is_active})
             IN  /\ n = 5 => last'.result = "LoanLimitExceeded" /\ loans' = loans
                 /\ n < 5 => last'.result = "ok"]_vars

\* the sixth borrow refused: five active loans on five titles, the sixth
\* title available
C3_Witness ==
    /\ last.op = "borrow_book" /\ last.result = "LoanLimitExceeded"
    /\ Cardinality({loans[k].isbn : k \in ActiveIdx(loans, last.user_id)}) = 5
    /\ BookOf(books, last.isbn).available_copies > 0
    /\ last.isbn \notin Range(users[last.user_id].borrowed_books)

\* C4: a failing register_user, borrow_book, return_book or get_user_loans
\* leaves the catalog, the members and the loan log as they were.
C4_FailureChangesNothing ==
    [][(/\ last'.op \in {"register_user", "borrow_book", "return_book",
                         "get_user_loans"}
        /\ last'.result # "ok")
       => (books' = books /\ users' = users /\ loans' = loans)]_vars

\* a refused call on a ledger that holds books, members and loans
C4_Witness ==
    /\ last.op \in {"borrow_book", "return_book"}
    /\ last.result \in {"NoCopiesAvailable", "ActiveLoanNotFound"}
    /\ Len(books) > 0 /\ DOMAIN users # {} /\ Len(loans) > 0
\* the five conditions of a borrow, in the order of their errors
BorrowErrors ==
    <<"MemberNotFound", "TitleNotFound", "NoCopiesAvailable",
      "DuplicateActiveLoan", "LoanLimitExceeded">>

\* the n-th condition of a borrow of i by u
BorrowCondition(n, u, i) ==
    CASE n = 1 -> u \in DOMAIN users
      [] n = 2 -> \E k \in 1..Len(books) : books[k].isbn = i
      [] n = 3 -> \E k \in 1..Len(books) :
                     books[k].isbn = i /\ books[k].available_copies > 0
      [] n = 4 -> ~\E k \in 1..Len(loans) :
                     loans[k].user_id = u /\ loans[k].isbn = i /\ loans[k].is_active
      [] n = 5 -> Cardinality({k \in 1..Len(loans) :
                     loans[k].user_id = u /\ loans[k].is_active}) < 5

\* the conditions that fail for a borrow of i by u
Failing(u, i) == {n \in 1..5 : ~BorrowCondition(n, u, i)}

\* C5: borrow_book succeeds iff the member is registered, the title is in the
\* catalog, a copy is available, the member has no active loan on the title
\* and fewer than 5 active loans; otherwise it fails with the error of the
\* first failing condition, whichever others fail with it.
C5_BorrowOutcome ==
    [][Calls("borrow_book") =>
        /\ last'.result = "ok"
             <=> \A n \in 1..5 : BorrowCondition(n, last'.user_id, last'.isbn)
        /\ \A n \in 1..5 :
             (/\ ~BorrowCondition(n, last'.user_id, last'.isbn)
              /\ \A m \in 1..(n - 1) : BorrowCondition(m, last'.user_id, last'.isbn))
             => last'.result = BorrowErrors[n]]_vars

\* a borrow refused as a duplicate while the member is at the limit as well
C5_Witness ==
    /\ last.op = "borrow_book" /\ last.result = "DuplicateActiveLoan"
    /\ Failing(last.user_id, last.isbn) = {4, 5}

\* C6: a successful borrow_book appends one active loan of the member on the
\* title to the log, takes one from the title's available_copies and appends
\* the ISBN to the member's list; total_copies, the other titles, the other
\* members and the older loans stay as they were.
C6_BorrowEffect ==
    [][Succeeds("borrow_book") =>
        LET u == last'.user_id
            i == last'.isbn
        IN  /\ Len(loans') = Len(loans) + 1
            /\ SubSeq(loans', 1, Len(loans)) = loans
            /\ loans'[Len(loans')].user_id = u
            /\ loans'[Len(loans')].isbn = i
            /\ loans'[Len(loans')].is_active
            /\ loans'[Len(loans')].return_date = None
            /\ Len(books') = Len(books)
            /\ \A k \in 1..Len(books) :
                 IF books[k].isbn = i
                 THEN books'[k] = [books[k] EXCEPT !.available_copies = @ - 1]
                 ELSE books'[k] = books[k]
            /\ DOMAIN users' = DOMAIN users
            /\ \A v \in DOMAIN users :
                 IF v = u
                 THEN users'[v] = [users[v] EXCEPT !.borrowed_books = Append(@, i)]
                 ELSE users'[v] = users[v]]_vars

\* a borrow by a member who already holds a title, after another member's loan
C6_Witness ==
    /\ last.op = "borrow_book" /\ last.result = "ok"
    /\ Len(users[last.user_id].borrowed_books) = 2
    /\ \E k \in 1..Len(loans) : loans[k].user_id # last.user_id

\* C7: a successful return_book closes one loan, the earliest active one of
\* the member on the title, gives one back to the title's available_copies
\* and takes one occurrence of the ISBN from the member's list; every other
\* loan, the other titles, total_copies and the other members stay as they
\* were, and the log keeps its length.
C7_ReturnEffect ==
    [][Succeeds("return_book") =>
        LET u == last'.user_id
            i == last'.isbn
            m == {k \in 1..Len(loans) :
                    loans[k].user_id = u /\ loans[k].isbn = i /\ loans[k].is_active}
        IN  /\ Len(loans') = Len(loans)
            /\ \E k \in m :
                 /\ \A j \in m : k <= j
                 /\ ~loans'[k].is_active
                 /\ loans'[k].return_date # None
                 /\ loans'[k] = [loans[k] EXCEPT !.is_active = FALSE,
                                                 !.return_date = loans'[k].return_date]
                 /\ \A j \in 1..Len(loans) : j # k => loans'[j] = loans[j]
            /\ Len(books') = Len(books)
            /\ \A k \in 1..Len(books) :
                 IF books[k].isbn = i
                 THEN books'[k] = [books[k] EXCEPT !.available_copies = @ + 1]
                 ELSE books'[k] = books[k]
            /\ DOMAIN users' = DOMAIN users
            /\ \A v \in DOMAIN users : v # u => users'[v] = users[v]
            /\ \E q \in 1..Len(users[u].borrowed_books) :
                 /\ users[u].borrowed_books[q] = i
                 /\ users'[u] = [users[u] EXCEPT !.borrowed_books = Without(@, q)]]_vars

\* the return of a second loan of the same member on the same title, the
\* first one closed before it
C7_Witness ==
    /\ last.op = "return_book" /\ last.result = "ok"
    /\ \E j, k \in ClosedIdx :
         /\ j < k
         /\ loans[j].user_id = last.user_id /\ loans[j].isbn = last.isbn
         /\ loans[k].user_id = last.user_id /\ loans[k].isbn = last.isbn

\* C8: a successful borrow_book followed at once by return_book of the same
\* member and title puts available_copies and the member's list back to what
\* they were before the borrow, the ISBN no longer in the list, and leaves the
\* loan the borrow made inactive with its return_date set.
C8_BorrowThenReturn ==
    /\ [][Succeeds("borrow_book") =>
            /\ BookOf(books', last'.isbn).available_copies
                 = BookOf(books, last'.isbn).available_copies - 1
            /\ users'[last'.user_id].borrowed_books
                 = Append(users[last'.user_id].borrowed_books, last'.isbn)
            /\ last'.isbn \notin Range(users[last'.user_id].borrowed_books)]_vars
    /\ [][(/\ last.op = "borrow_book" /\ last.result = "ok"
           /\ Calls("return_book")
           /\ last'.user_id = last.user_id /\ last'.isbn = last.isbn)
          => /\ last'.result = "ok"
             /\ BookOf(books', last.isbn).available_copies
                  = BookOf(books, last.isbn).available_copies + 1
             /\ Append(users'[last.user_id].borrowed_books, last.isbn)
                  = users[last.user_id].borrowed_books
             /\ last.isbn \notin Range(users'[last.user_id].borrowed_books)
             /\ Len(loans') = Len(loans)
             /\ loans[Len(loans)].is_active
             /\ ~loans'[Len(loans)].is_active
             /\ loans'[Len(loans)].return_date # None]_vars

\* the newest loan returned while the member holds another title
C8_Witness ==
    /\ last.op = "return_book" /\ last.result = "ok"
    /\ loans[Len(loans)].user_id = last.user_id
    /\ loans[Len(loans)].isbn = last.isbn
    /\ ~loans[Len(loans)].is_active
    /\ users[last.user_id].borrowed_books # <<>>

\* C9: a borrow of the last available copy by an eligible member succeeds and
\* leaves 0; while the title has 0 available copies every borrow_book on it by
\* a registered member fails with NoCopiesAvailable, only a return_book or an
\* add_book on the title ends that, and a return makes it 1, with the
\* returning member eligible to borrow it.
C9_LastCopy ==
    [][\A k \in 1..Len(books) :
        LET i == books[k].isbn
            a == books[k].available_copies
        IN  /\ (Succeeds("borrow_book") /\ last'.isbn = i /\ a = 1)
                 => books'[k].available_copies = 0
            /\ (/\ Calls("borrow_book") /\ last'.isbn = i /\ a = 1
                /\ Failing(last'.user_id, i) = {})
                 => last'.result = "ok"
            /\ (/\ Calls("borrow_book") /\ last'.isbn = i /\ a = 0
                /\ last'.user_id \in DOMAIN users)
                 => last'.result = "NoCopiesAvailable"
            /\ (a = 0 /\ books'[k].available_copies # 0)
                 => last'.op \in {"return_book", "add_book"} /\ last'.isbn = i
            /\ (Succeeds("return_book") /\ last'.isbn = i /\ a = 0)
                 => /\ books'[k].available_copies = 1
                    /\ ~\E n \in 1..Len(loans') :
                          /\ loans'[n].is_active
                          /\ loans'[n].user_id = last'.user_id
                          /\ loans'[n].isbn = i]_vars

\* a member refused on a title whose copies are all lent, after a return of
\* the title
C9_Witness ==
    /\ last.op = "borrow_book" /\ last.result = "NoCopiesAvailable"
    /\ last.user_id \in DOMAIN users
    /\ \E n \in ClosedIdx : loans[n].isbn = last.isbn

\* C10: return_book fails with MemberNotFound for an unknown member, else
\* TitleNotFound for an unknown title, else ActiveLoanNotFound exactly when the
\* log has no active loan of the member on the title; a second return_book
\* right after a successful one fails with ActiveLoanNotFound.
C10_ReturnOutcome ==
    /\ [][Calls("return_book") =>
            LET u == last'.user_id
                i == last'.isbn
            IN  last'.result =
                  IF u \notin DOMAIN users THEN "MemberNotFound"
                  ELSE IF ~\E k \in 1..Len(books) : books[k].isbn = i
                       THEN "TitleNotFound"
                  ELSE IF ~\E k \in 1..Len(loans) :
                             /\ loans[k].user_id = u /\ loans[k].isbn = i
                             /\ loans[k].is_active
                       THEN "ActiveLoanNotFound"
                  ELSE "ok"]_vars
    /\ [][(/\ last.op = "return_book" /\ last.result = "ok"
           /\ Calls("return_book")
           /\ last'.user_id = last.user_id /\ last'.isbn = last.isbn)
          => last'.result = "ActiveLoanNotFound"]_vars

\* a second return of a loan already returned
C10_Witness ==
    /\ last.op = "return_book" /\ last.result = "ActiveLoanNotFound"
    /\ \E n \in ClosedIdx :
         loans[n].user_id = last.user_id /\ loans[n].isbn = last.isbn
\* the n-th smallest position of the set of positions idx
NthOf(idx, n) == CHOOSE k \in idx : Cardinality({j \in idx : j <= k}) = n

\* v lists the elements of s at the positions idx, in the order of s
ListsInOrder(v, s, idx) ==
    /\ Len(v) = Cardinality(idx)
    /\ \A n \in 1..Len(v) : v[n] = s[NthOf(idx, n)]

\* C11: add_book never fails; the first call for an ISBN makes the entry with
\* total_copies = available_copies = its count and the given title, author
\* and year, each repeat call adds its count to both counters and leaves
\* title, author and year alone, so that with no borrow the counters of an
\* entry are equal and two calls in a row add the sum of their counts.
C11_AddBookSums ==
    /\ [](\A k \in 1..Len(books) :
            books[k].total_copies = books[k].available_copies)
    /\ [](\A i \in CatIsbns, c1, c2 \in Copies, t1, t2 \in CatTitles :
            LET known == \E k \in 1..Len(books) : books[k].isbn = i
                old == IF known THEN BookOf(books, i).total_copies ELSE 0
                b == BookOf(AddBookBooks(
                                AddBookBooks(books, i, t1, <<"B">>, 1949, c1),
                                i, t2, <<"a", "a">>, 1997, c2), i)
            IN  /\ b.total_copies = old + c1 + c2
                /\ b.available_copies = old + c1 + c2
                /\ b.title = IF known THEN BookOf(books, i).title ELSE t1
                /\ b.author = IF known THEN BookOf(books, i).author ELSE <<"B">>
                /\ b.year = IF known THEN BookOf(books, i).year ELSE 1949)
    /\ [][Calls("add_book") =>
            LET i == last'.isbn
                a == last'.value
            IN  /\ last'.result = "ok"
                /\ IF \E k \in 1..Len(books) : books[k].isbn = i
                   THEN /\ a.message = "CopiesAdded"
                        /\ Len(books') = Len(books)
                        /\ \A k \in 1..Len(books) :
                             books'[k] =
                               IF books[k].isbn = i
                               THEN [books[k] EXCEPT
                                       !.total_copies = @ + a.copies,
                                       !.available_copies = @ + a.copies]
                               ELSE books[k]
                   ELSE /\ a.message = "BookAdded"
                        /\ books' = Append(books,
                             [isbn |-> i, title |-> a.title, author |-> a.author,
                              year |-> a.year, total_copies |-> a.copies,
                              available_copies |-> a.copies])]_vars

\* a restock under another title, author and year: the entry keeps its own
C11_Witness ==
    /\ last.op = "add_book" /\ last.value.message = "CopiesAdded"
    /\ LET b == BookOf(books, last.isbn)
       IN  /\ b.total_copies = 2 /\ b.available_copies = 2
           /\ b.title # last.value.title
           /\ b.author # last.value.author
           /\ b.year # last.value.year

\* two letters are the same but for their case
SameLetter(x, y) == LowerChar(x) = LowerChar(y)

\* q occurs in s when case is ignored
OccursIn(q, s) ==
    \E off \in 0..(Len(s) - Len(q)) :
        \A j \in 1..Len(q) : SameLetter(q[j], s[off + j])

\* C18: search_books returns the entries whose title or author contains the
\* query when case is ignored, in the order the entries were first added (an
\* entry keeps its place in the catalog, new ones go last), an empty
\* sequence when none does; it never fails and changes no state.
C18_SearchBooks ==
    /\ [][Calls("search_books") =>
            /\ last'.result = "ok"
            /\ books' = books /\ users' = users /\ loans' = loans /\ now' = now
            /\ ListsInOrder(last'.value.results, books,
                 {k \in 1..Len(books) :
                     \/ OccursIn(last'.value.query, books[k].title)
                     \/ OccursIn(last'.value.query, books[k].author)})]_vars
    /\ [][/\ Len(books') >= Len(books)
          /\ \A k \in 1..Len(books) : books'[k].isbn = books[k].isbn]_vars

\* a query in upper case that finds the second entry by its author and not
\* the first
C18_Witness ==
    /\ last.op = "search_books"
    /\ last.value.query = <<"A", "A">>
    /\ Len(books) = 2
    /\ last.value.results = <<books[2]>>
\* C12: no two members share an email; register_user fails with
\* DuplicateMember when the id is registered, whether or not the email is in
\* use, with DuplicateEmail when the id is new and a member has exactly that
\* email, and otherwise adds one member with an empty borrowed list and
\* leaves the others as they were.
C12_RegisterUser ==
    /\ [](\A u, v \in DOMAIN users : users[u].email = users[v].email => u = v)
    /\ [][Calls("register_user") =>
            LET u == last'.user_id
                e == last'.value
            IN  IF u \in DOMAIN users
                THEN last'.result = "DuplicateMember" /\ users' = users
                ELSE IF \E v \in DOMAIN users : users[v].email = e
                THEN last'.result = "DuplicateEmail" /\ users' = users
                ELSE /\ last'.result = "ok"
                     /\ DOMAIN users' = DOMAIN users \cup {u}
                     /\ users'[u].user_id = u
                     /\ users'[u].email = e
                     /\ users'[u].borrowed_books = <<>>
                     /\ \A v \in DOMAIN users : users'[v] = users[v]]_vars

\* a registered id offered again with the email of another member
C12_Witness ==
    /\ last.op = "register_user" /\ last.result = "DuplicateMember"
    /\ \E v \in DOMAIN users : v # last.user_id /\ users[v].email = last.value
\* C13: the log only grows at its end; a loan keeps its member, ISBN,
\* loan_date and due_date, is active exactly while its return_date is unset,
\* and once closed never changes again, also when the member borrows the
\* title again later.
C13_LogAppendOnly ==
    /\ [](\A k \in 1..Len(loans) :
            loans[k].is_active <=> loans[k].return_date = None)
    /\ [][/\ Len(loans') >= Len(loans)
          /\ \A k \in 1..Len(loans) :
               /\ loans'[k].user_id = loans[k].user_id
               /\ loans'[k].isbn = loans[k].isbn
               /\ loans'[k].loan_date = loans[k].loan_date
               /\ loans'[k].due_date = loans[k].due_date
               /\ ~loans[k].is_active => loans'[k] = loans[k]]_vars

\* the second loan of a member on a title returned at a later reading of the
\* clock than the first
C13_Witness ==
    /\ last.op = "return_book" /\ last.result = "ok"
    /\ \E j, k \in ClosedIdx :
         /\ j < k
         /\ loans[j].user_id = loans[k].user_id /\ loans[j].isbn = loans[k].isbn
         /\ loans[j].return_date < loans[k].return_date

\* C14: a successful return_book of a loan at least one whole day past its
\* due date reports that number of days, and of a loan returned on time
\* reports none (0 stands for a message without "dias de atraso").
C14_ReturnReportsLateness ==
    [][Succeeds("return_book") =>
        \A k \in 1..Len(loans) :
            (loans[k].is_active /\ ~loans'[k].is_active) =>
                /\ now - loans[k].due_date >= TicksPerDay
                     => last'.value = (now - loans[k].due_date) \div TicksPerDay
                /\ now <= loans[k].due_date => last'.value = 0]_vars

\* C15: get_overdue_loans returns the loans that are active with a due_date
\* before the reading of the clock at the call, in the order of the log, and
\* changes nothing: a loan is in it as soon as the clock has passed its
\* due_date and never once it is returned.
C15_OverdueLoans ==
    [][Calls("get_overdue_loans") =>
        /\ last'.result = "ok"
        /\ books' = books /\ users' = users /\ loans' = loans /\ now' = now
        /\ ListsInOrder(last'.value, loans,
             {k \in 1..Len(loans) :
                 loans[k].is_active /\ loans[k].due_date < now})]_vars

\* two loans past their due date, the first returned: only the second is
\* reported
C15_Witness ==
    /\ last.op = "get_overdue_loans"
    /\ Len(loans) = 2
    /\ ~loans[1].is_active /\ loans[1].due_date < now
    /\ last.value = <<loans[2]>>

\* C16: days_overdue of a loan is 0 when the loan is returned or the clock is
\* not past its due_date, and otherwise the number of whole days from the
\* due_date to the clock, a started day not counted.
C16_DaysOverdue ==
    [][Calls("days_overdue") =>
        LET l == loans[last'.value.loan]
            d == last'.value.days
        IN  /\ (~l.is_active \/ now <= l.due_date) => d = 0
            /\ (l.is_active /\ now > l.due_date) =>
                 /\ d * TicksPerDay <= now - l.due_date
                 /\ now - l.due_date < (d + 1) * TicksPerDay]_vars

\* a loan a day and a part of a day late
C16_Witness ==
    /\ last.op = "days_overdue"
    /\ last.value.days >= 1
    /\ (now - loans[last.value.loan].due_date) % TicksPerDay # 0

\* C17: get_library_stats returns the number of titles, the sums of
\* total_copies and of available_copies, the number of members, of active
\* loans and of loans overdue at the call; it never fails and changes
\* nothing.
C17_LibraryStats ==
    [][Calls("get_library_stats") =>
        LET v == last'.value
        IN  /\ last'.result = "ok"
            /\ books' = books /\ users' = users /\ loans' = loans /\ now' = now
            /\ v.total_titles = Cardinality({books[k].isbn : k \in 1..Len(books)})
            /\ v.total_books =
                 Cardinality({<<k, c>> \in (1..Len(books)) \X (1..MaxTotal + 1) :
                                 c <= books[k].total_copies})
            /\ v.available_books =
                 Cardinality({<<k, c>> \in (1..Len(books)) \X (1..MaxTotal + 1) :
                                 c <= books[k].available_copies})
            /\ v.registered_users = Cardinality(DOMAIN users)
            /\ v.active_loans =
                 Cardinality({k \in 1..Len(loans) : loans[k].is_active})
            /\ v.overdue_loans =
                 Cardinality({k \in 1..Len(loans) :
                                 loans[k].is_active /\ loans[k].due_date < now})]_vars

\* two titles of 1 and 2 copies, two members, two loans, one of them overdue
C17_Witness ==
    /\ last.op = "get_library_stats"
    /\ last.value = [total_titles |-> 2, total_books |-> 3,
                     available_books |-> 1, registered_users |-> 2,
                     active_loans |-> 2, overdue_loans |-> 1]
(***************************************************************************)
(* C19: for every title of the catalog, in every reachable state,          *)
(* total_copies >= 0 and 0 <= available_copies <= total_copies, also when  *)
(* add_book is called with a zero or negative count of copies, on a new    *)
(* or an existing ISBN.                                                    *)
(***************************************************************************)
C19_CopyBounds ==
    \A b \in 1..Len(books) :
        /\ books[b].total_copies >= 0
        /\ 0 <= books[b].available_copies
        /\ books[b].available_copies <= books[b].total_copies

(***************************************************************************)
(* C20: conservation of copies.  In every reachable state, for every       *)
(* title of the catalog, available_copies = total_copies minus the number  *)
(* of active loans of the log for that ISBN, after any interleaving of     *)
(* add_book (restocks included), borrow_book and return_book by any        *)
(* members.                                                                *)
(***************************************************************************)
ActiveOn(isbn) == {k \in 1..Len(loans) : loans[k].isbn = isbn /\ loans[k].is_active}

C20_Conservation ==
    \A b \in 1..Len(books) :
        books[b].available_copies =
            books[b].total_copies - Cardinality(ActiveOn(books[b].isbn))

\* a title has just been restocked while one copy of it is out, after another
\* loan of it was returned
C20_Witness ==
    /\ last.op = "add_book"
    /\ last.value.message = "CopiesAdded"
    /\ ActiveOn(last.isbn) # {}
    /\ \E k \in ClosedIdx : loans[k].isbn = last.isbn

(***************************************************************************)
(* C21: in every reachable state the borrowed list of each member is, as   *)
(* a sequence, the ISBNs of the active loans of that member in the order   *)
(* of the log (the loans get_user_loans returns for the member); no ISBN   *)
(* is twice in a borrowed list and no list is longer than 5.               *)
(***************************************************************************)
IsbnsOf(lns) == [k \in 1..Len(lns) |-> lns[k].isbn]

C21_BorrowedList ==
    \A u \in DOMAIN users :
        LET bb == users[u].borrowed_books IN
        /\ bb = IsbnsOf(UserLoans(loans, u))
        /\ \A j, k \in 1..Len(bb) : bb[j] = bb[k] => j = k
        /\ Len(bb) <= 5

\* a member holds five titles, one of them borrowed again after its return,
\* so the list is no longer in the order of the first borrows
C21_Witness ==
    \E u \in DOMAIN users :
        /\ Len(users[u].borrowed_books) = 5
        /\ \E j, k \in 1..Len(loans) :
             /\ j < k
             /\ loans[j].user_id = u /\ loans[k].user_id = u
             /\ loans[j].isbn = loans[k].isbn
             /\ ~loans[j].is_active /\ loans[k].is_active

====
